---------------------------- MODULE Spec2Model ----------------------------
(* Universal Creative Identity: verification scoring (CreativeIdentity.ts),   *)
(* the on-chain identity registry (CreativeIdentityRegistry) and the          *)
(* cross-platform sync engine (CrossPlatformSyncEngine / ConflictResolver).   *)
(*                                                                            *)
(* Numbers: a confidence is kept in hundredths (0.95 is 95), so a weighted    *)
(* score is kept in hundredths too and Math.floor is an integer division.     *)
(* Three specifications share the variables; each leaves the variables of the *)
(* other two components at their initial value.                               *)
EXTENDS Integers, Sequences, FiniteSets, TLC

VARIABLES
  now,          \* the wall clock read by Date.now() / new Date()
  stored,       \* the identity behind storeIdentity / getIdentity, or null
  ret,          \* what the last CreativeIdentity call returned or threw
  onChain,      \* the last level passed to updateIdentityOnChain, or null
  creators,     \* CreativeIdentityRegistry.creators
  profile,      \* the creator profile behind getCreatorProfile / updateCreatorProfile
  pc,           \* where syncCreatorProfile stands
  cycleProfile, \* the local `profile` of the running syncCreatorProfile
  promises,     \* the syncPromises of the running cycle, one per connection
  detected,     \* the conflicts detectConflicts returned in this cycle
  recorded,     \* what recordConflict kept: <<conflict type, resolution>>
  syncResult,   \* the SyncResult the cycle returned, or null
  pc2,          \* where a second, overlapping syncCreatorProfile call stands
  cycleProfile2,\* the local `profile` of the second call
  promises2,    \* the syncPromises of the second call
  syncResult2,  \* the SyncResult the second call returned, or null
  rt,           \* the running handleRealTimeUpdate call: its position, the
                \* profile it read, and its platformId and updateData
  websocketConnections, \* RealtimeSyncService: whether the creator's socket is open
  syncQueue,    \* RealtimeSyncService.syncQueue: the entries enqueued
  broadcasts,   \* the messages ws.send has sent to the creator's clients
  delivered,    \* the webhook events the platforms have delivered so far
  subscriptions,\* the platforms whose events are subscribed for the creator
  setups,       \* where each running setupPlatformWebhooks call stands
  resolveArgs,  \* the syncResults a direct ConflictResolver.resolve call is given
  resolveRet,   \* the profile that call returned, or null
  strategyArgs, \* the conflict and profile one conflict is resolved with, run
                \* after run
  strategyRets, \* the ResolutionResults of those runs, in order
  cancelled,    \* whether the caller has cancelled the running cycle
  request,      \* what the last createIdentity call was given and met, or null
  contentRegistry,    \* CreativeIdentityRegistry.contentRegistry
  contentProofs,      \* creators[...].contentProofs of that contract
  authenticityProofs, \* ContentAuthenticityEngine.authenticityProofs
  oracleVotes,        \* ContentAuthenticityEngine.oracleVotes: who voted on a hash
  oracleVoteCount,    \* ContentAuthenticityEngine.oracleVoteCount
  totalVerifications, \* oracles[...].totalVerifications of that contract
  authenticator,\* the ContentAuthenticator of the engine: the weights it
                \* scores with and the evidence it finds for a content
  credentials   \* the ContentCredentials verifyContentAuthenticity has added

identityVars == <<stored, ret, onChain>>
registryVars == <<creators>>
syncVars     == <<profile, pc, cycleProfile, promises, detected, recorded, syncResult>>
concurrentVars == <<pc2, cycleProfile2, promises2, syncResult2, rt>>
realtimeVars == <<websocketConnections, syncQueue, broadcasts, delivered,
                  subscriptions, setups>>
resolverVars == <<resolveArgs, resolveRet>>
strategyVars == <<strategyArgs, strategyRets>>
callerVars   == <<cancelled, request>>
contentVars  == <<contentRegistry, contentProofs>>
authenticityVars == <<authenticityProofs, oracleVotes, oracleVoteCount,
                      totalVerifications>>
credentialVars == <<authenticator, credentials>>
vars         == <<now, stored, ret, onChain, creators, profile, pc, cycleProfile,
                  promises, detected, recorded, syncResult,
                  pc2, cycleProfile2, promises2, syncResult2, rt,
                  websocketConnections, syncQueue, broadcasts, delivered,
                  subscriptions, setups,
                  resolveArgs, resolveRet, strategyArgs, strategyRets,
                  cancelled, request,
                  contentRegistry, contentProofs,
                  authenticityProofs, oracleVotes, oracleVoteCount,
                  totalVerifications, authenticator, credentials>>

-----------------------------------------------------------------------------
(* Bounds of the model *)

MaxMethods == 2        \* longest verificationMethods list explored
MaxTime == 2           \* the clock runs 0..MaxTime
MaxVerifications == 11 \* verifyPlatformConnection calls explored per creator
MaxQueue == 3          \* longest syncQueue explored
MaxSetups == 1         \* setupPlatformWebhooks calls running at a time
MaxRuns == 2           \* runs of the resolver on one conflict
MaxVotes == 5          \* votes counted per content hash
MaxCredentials == 2    \* content credentials explored per identity

-----------------------------------------------------------------------------
(* Values shared by the components *)

\* null / undefined is the empty sequence and a present value v is <<v>>, so
\* that a value which may be absent can always be compared.
null       == <<>>
Some(v)    == <<v>>
NoIdentity == null
NoExpiry   == null

Min(a, b) == IF a <= b THEN a ELSE b
Max(a, b) == IF a >= b THEN a ELSE b

\* The platforms of the model, in the order of profile.platformConnections.
PlatformOrder == <<"tiktok", "instagram", "youtube">>
Platforms     == {PlatformOrder[i] : i \in 1..Len(PlatformOrder)}

\* The adapters the engine holds: the two adapter classes the source defines.
platformAdapters == {"tiktok", "instagram"}

-----------------------------------------------------------------------------
(* CreativeIdentity.ts                                                        *)
(* storeIdentity, getIdentity and connectPlatform are placeholders in the     *)
(* source (one logs, one returns null, one throws). They are modelled as what *)
(* they stand for: a store that returns what was stored, and a platform link  *)
(* that either returns a connection or throws.                                *)

MethodTypes    == {"biometric", "government_id", "social_proof",
                   "platform_verification", "community_vouching"}
MethodStatuses == {"verified", "pending", "failed", "expired"}

\* Confidences offered to updateVerificationLevel, in hundredths: two inside
\* [0,1] and one on either side of it.
Confidences == {-100, 95, 100, 150}
\* Confidences the biometric verifier may report to createIdentity.
BiometricConfidences == {90, 95, 100}
ExpiryInputs == {NoExpiry, Some(0)}

MethodInputs ==
  [type : MethodTypes, status : MethodStatuses,
   confidence : Confidences, expiresAt : ExpiryInputs]

\* The value JavaScript arithmetic gives when an operand is no number:
\* weights[type] of an unknown type is undefined, and undefined * x, NaN + x,
\* Math.floor(NaN) and Math.min(100, NaN) are all NaN. It stands outside the
\* scores the model reaches.
NaN == -100000

\* Methods a caller may pass at run time that the VerificationMethod type does
\* not describe: a type outside the enumeration, or a confidence that is no
\* number.
InvalidMethodInputs ==
  [type : {"selfie"}, status : {"verified", "pending"},
   confidence : {95}, expiresAt : {NoExpiry}]
  \cup [type : {"biometric"}, status : {"verified", "pending"},
        confidence : {NaN}, expiresAt : {NoExpiry}]

\* const weights = { biometric: 20, ... }
weights(type) ==
  CASE type = "biometric"             -> 20
    [] type = "government_id"         -> 30
    [] type = "social_proof"          -> 15
    [] type = "platform_verification" -> 25
    [] type = "community_vouching"    -> 10
    [] OTHER                          -> NaN

\* The loop of calculateVerificationLevel: score += weights[type] * confidence
\* for each method whose status is 'verified'. In hundredths.
RECURSIVE scoreOf(_)
scoreOf(methods) ==
  IF methods = <<>> THEN 0
  ELSE LET method == Head(methods)
           weight == weights(method.type)
           term   == IF method.status # "verified" THEN 0
                     ELSE IF weight = NaN \/ method.confidence = NaN THEN NaN
                     ELSE weight * method.confidence
           rest   == scoreOf(Tail(methods))
       IN IF term = NaN \/ rest = NaN THEN NaN ELSE term + rest

\* Math.floor of a score in hundredths (\div rounds towards minus infinity).
Floor(score) == IF score = NaN THEN NaN ELSE score \div 100

\* return Math.min(100, Math.floor(score));
calculateVerificationLevel(methods) ==
  LET floored == Floor(scoreOf(methods))
  IN IF floored = NaN THEN NaN ELSE Min(100, floored)

\* Step 5 of createIdentity: the identity object before the platforms connect.
newIdentity(confidence) ==
  [verificationLevel   |-> 10,
   verificationMethods |-> <<[type |-> "biometric", status |-> "verified",
                              confidence |-> confidence, expiresAt |-> NoExpiry]>>,
   connectedPlatforms  |-> {},
   authenticityScore   |-> 10]

\* A creation that gives up only when the biometric check does.
creationFailsOnBiometric(confidence, externalOk) == confidence < 95

\* The throws inside the try block of createIdentity before the identity
\* object is built: the confidence test of step 1, and registerCreator and
\* deployIdentityContract of steps 3 and 4.
creationFails(confidence, externalOk) == confidence < 95 \/ ~externalOk

\* createIdentity(request). confidence is what verifyBiometric reports,
\* requested the request's initialPlatforms, connects those of them for which
\* connectPlatform returns instead of throwing, and externalOk says whether
\* registerCreator and deployIdentityContract both return.
createIdentity(confidence, requested, connects, externalOk) ==
  /\ stored = NoIdentity
  /\ connects \subseteq requested
  /\ request' = Some([confidence |-> confidence, requested |-> requested,
                      connects |-> connects, externalOk |-> externalOk])
  /\ IF creationFails(confidence, externalOk)
       THEN /\ ret' = [op |-> "createIdentity", ok |-> FALSE, value |-> null]
            /\ UNCHANGED stored
       ELSE LET identity == newIdentity(confidence)
                level    == identity.verificationLevel + 10 * Cardinality(connects)
            IN /\ stored' = Some([identity EXCEPT !.connectedPlatforms = connects,
                                                  !.verificationLevel = level])
               /\ ret' = [op |-> "createIdentity", ok |-> TRUE, value |-> Some(level)]
  /\ UNCHANGED <<contentVars, authenticityVars, credentialVars,
                 cancelled, now, onChain, registryVars, syncVars, concurrentVars,
                 realtimeVars, resolverVars, strategyVars>>

\* updateVerificationLevel(identityId, newVerification).
updateVerificationLevel(newVerification) ==
  /\ IF stored = NoIdentity
       THEN /\ ret' = [op |-> "updateVerificationLevel", ok |-> FALSE,
                       value |-> null]
            /\ UNCHANGED <<stored, onChain>>
       ELSE LET identity == stored[1]
                methods  == Append(identity.verificationMethods, newVerification)
                newLevel == calculateVerificationLevel(methods)
                \* identity.verificationLevel is assigned before the test below
                assigned == newLevel
            IN /\ Len(identity.verificationMethods) < MaxMethods
               /\ stored' = Some([identity EXCEPT !.verificationMethods = methods,
                                                  !.verificationLevel = newLevel])
               /\ onChain' = IF newLevel # NaN /\ newLevel - assigned >= 10
                                THEN Some(newLevel)
                                ELSE onChain
               /\ ret' = [op |-> "updateVerificationLevel", ok |-> TRUE,
                          value |-> Some(newLevel)]
  /\ UNCHANGED <<contentVars, authenticityVars, credentialVars,
                 callerVars, now, registryVars, syncVars, concurrentVars, realtimeVars,
                 resolverVars, strategyVars>>

\* Time passes.
Tick ==
  /\ now < MaxTime
  /\ now' = now + 1
  /\ UNCHANGED <<contentVars, authenticityVars, credentialVars,
                 callerVars, identityVars, registryVars, syncVars, concurrentVars, realtimeVars,
                 resolverVars, strategyVars>>

-----------------------------------------------------------------------------
(* CreativeIdentity.ts: verifyContentAuthenticity                             *)
(* ContentAuthenticator is imported and not part of the source: its score is  *)
(* the weighted combination the specification describes, for weights the      *)
(* specification leaves open.                                                 *)

\* The sub-scores of an AuthenticityProof.
SubScores == {"biometricMatch", "metadataConsistency", "deepfakeDetection",
              "socialProof", "blockchainProof"}

\* What the authenticator may find for one sub-score, in hundredths: nothing,
\* a value inside [0,1], or one above it.
SubScoreInputs == {null, Some(0), Some(50), Some(130)}

\* Weights in percent: even ones, uneven ones, and ones that add up to more
\* than 100.
evenWeights == [k \in SubScores |-> 20]
WeightVectors ==
  {evenWeights,
   [biometricMatch |-> 40, metadataConsistency |-> 30, deepfakeDetection |-> 10,
    socialProof |-> 10, blockchainProof |-> 10],
   [k \in SubScores |-> 30]}

\* A sub-score normalized to [0,100]; the deepfake confidence counts inverted.
normalized(k, v) ==
  LET clamped == Max(0, Min(100, v))
  IN IF k = "deepfakeDetection" THEN 100 - clamped ELSE clamped

\* The weighted sum of the sub-scores of ks, in hundredths of a point.
RECURSIVE weightedSum(_, _, _)
weightedSum(ws, evidence, ks) ==
  IF ks = {} THEN 0
  ELSE LET k == CHOOSE x \in ks : TRUE
           term == IF evidence[k] = null THEN 0
                   ELSE ws[k] * normalized(k, evidence[k][1])
       IN term + weightedSum(ws, evidence, ks \ {k})

\* An overall score that is not capped.
uncappedScoreOf(ws, evidence) ==
  Max(0, weightedSum(ws, evidence, SubScores) \div 100)

\* The overall score: floored at 0, capped at 100; 0 without evidence.
overallScoreOf(ws, evidence) ==
  Min(100, Max(0, weightedSum(ws, evidence, SubScores) \div 100))

\* The risk tier of a score.
riskLevelOf(score) ==
  IF score < 40 THEN "high" ELSE IF score <= 75 THEN "medium" ELSE "low"

\* contentAuth.verifyAuthenticity(...): the AuthenticityProof of a content.
verifyAuthenticity(auth) ==
  LET score == overallScoreOf(auth.weights, auth.evidence)
  IN [overallScore |-> score, riskLevel |-> riskLevelOf(score)]

\* The contents offered, as byte sequences.
ContentData == {<<1>>, <<2>>}

\* crypto.createHash('sha256').update(contentData).digest('hex'): equal for
\* equal contents, different for different ones.
sha256(contentData) == <<"sha256", contentData>>

\* verifyContentAuthenticity(identityId, contentData, contentType,
\* platformOrigin). chainOk: whether the registration on chain returns; the
\* method itself looks up no earlier credential. crypto.randomUUID() is an id
\* not used before.
verifyContentAuthenticity(contentData, platformOrigin, chainOk) ==
  /\ Len(credentials) < MaxCredentials
  /\ LET contentHash       == sha256(contentData)
         authenticityProof == verifyAuthenticity(authenticator)
         credential ==
           [id                 |-> Len(credentials) + 1,
            contentHash        |-> contentHash,
            originalPlatform   |-> platformOrigin,
            authenticityProof  |-> authenticityProof,
            verificationStatus |-> IF authenticityProof.overallScore > 80
                                     THEN "verified" ELSE "pending"]
     IN credentials' = IF chainOk THEN Append(credentials, credential)
                                  ELSE credentials
  /\ UNCHANGED <<callerVars, now, identityVars, registryVars, syncVars,
                 concurrentVars, realtimeVars, resolverVars, strategyVars,
                 contentVars, authenticityVars, authenticator>>

-----------------------------------------------------------------------------
(* CreativeIdentityRegistry (Solidity) *)

\* The accounts that register as creators.
Addresses == {"0xA1", "0xB2"}
\* The accounts whose verificationOracles entry is active. The contract shown
\* has no function that writes the mapping, so it is fixed at deployment.
verificationOracles == {"0xE5"}
Senders == Addresses \cup verificationOracles

\* The zero value of a creators[...] slot.
noCreator == [isActive |-> FALSE, verificationLevel |-> 0, platformConnections |-> {}]

\* function registerCreator(string memory _identityHash) external
registerCreator(sender) ==
  /\ ~creators[sender].isActive                 \* require(!...isActive)
  /\ creators' = [creators EXCEPT ![sender].isActive = TRUE,
                                  ![sender].verificationLevel = 10]
  /\ UNCHANGED <<contentVars, authenticityVars, credentialVars,
                 callerVars, now, identityVars, syncVars, concurrentVars, realtimeVars,
                 resolverVars, strategyVars>>

\* _validatePlatformProof: return true
validatePlatformProof(creator, platform) == TRUE

\* function verifyPlatformConnection(_creator, _platform, _platformProof)
\*   external onlyVerificationOracle
verifyPlatformConnection(sender, creator, platform) ==
  /\ sender \in verificationOracles             \* onlyVerificationOracle
  /\ creators[creator].isActive                 \* require(...isActive)
  /\ validatePlatformProof(creator, platform)   \* require(isValid)
  /\ creators[creator].verificationLevel < 10 + 10 * MaxVerifications
  /\ creators' = [creators EXCEPT
       ![creator].platformConnections = @ \cup {platform},
       ![creator].verificationLevel = @ + 10]
  /\ UNCHANGED <<contentVars, authenticityVars, credentialVars,
                 callerVars, now, identityVars, syncVars, concurrentVars, realtimeVars,
                 resolverVars, strategyVars>>

\* bytes32 content hashes: bytes32(0) and one other.
Hashes == {0, 1}
\* The platformOrigin strings offered.
Origins == {"tiktok", "instagram"}
\* address(0)
ZeroAddress == "0x00"

\* block.timestamp: seconds since 1970, never 0.
blockTimestamp == now + 1

\* The zero value of a ContentProof slot.
noContentProof ==
  [contentHash |-> 0, timestamp |-> 0, platformOrigin |-> "",
   creator |-> ZeroAddress, isAuthentic |-> FALSE, verificationScore |-> 0]

\* function addContentProof(_contentHash, _platformOrigin, _signature)
\*   external onlyRegisteredCreator nonReentrant
\* signed: whether the signature recovers to msg.sender.
addContentProof(sender, contentHash, platformOrigin, signed) ==
  /\ creators[sender].isActive                      \* onlyRegisteredCreator
  /\ signed                                         \* require(recoveredSigner == msg.sender)
  /\ contentRegistry[contentHash].timestamp = 0     \* require(...timestamp == 0)
  /\ LET newProof == [contentHash       |-> contentHash,
                      timestamp         |-> blockTimestamp,
                      platformOrigin    |-> platformOrigin,
                      creator           |-> sender,
                      isAuthentic       |-> TRUE,
                      verificationScore |-> creators[sender].verificationLevel]
     IN /\ contentRegistry' = [contentRegistry EXCEPT ![contentHash] = newProof]
        /\ contentProofs' = [contentProofs EXCEPT ![sender][contentHash] = newProof]
  /\ UNCHANGED <<callerVars, now, identityVars, registryVars, syncVars,
                 concurrentVars, realtimeVars, resolverVars, strategyVars,
                 authenticityVars, credentialVars>>

-----------------------------------------------------------------------------
(* ContentAuthenticityEngine (Solidity) *)

\* The accounts whose oracles[...] entry is set. The contract shown has no
\* function that writes the mapping, so it is fixed at deployment.
oracles == {"0xE5", "0xE6", "0xE7", "0xE8"}

\* The zero value of an AuthenticityProof slot.
noAuthenticityProof ==
  [contentHash |-> 0, metadataHash |-> 0, creator |-> ZeroAddress,
   creationTimestamp |-> 0, verificationMethods |-> <<>>,
   confidenceScore |-> 0, isVerified |-> FALSE]

\* function submitForVerification(_contentHash, _metadataHash,
\*   _verificationMethods) external
submitForVerification(sender, contentHash, metadataHash, verificationMethods) ==
  /\ authenticityProofs[contentHash].contentHash = 0   \* require(... == bytes32(0))
  /\ authenticityProofs' = [authenticityProofs EXCEPT ![contentHash] =
       [contentHash         |-> contentHash,
        metadataHash        |-> metadataHash,
        creator             |-> sender,
        creationTimestamp   |-> blockTimestamp,
        verificationMethods |-> verificationMethods,
        confidenceScore     |-> 0,
        isVerified          |-> FALSE]]
  /\ UNCHANGED <<callerVars, now, identityVars, registryVars, syncVars,
                 concurrentVars, realtimeVars, resolverVars, strategyVars,
                 contentVars, oracleVotes, oracleVoteCount, totalVerifications,
                 credentialVars>>

\* function _finalizeVerification(bytes32 _contentHash) private
finalizeVerification(proofs, contentHash) ==
  [proofs EXCEPT ![contentHash].isVerified = TRUE,
                 ![contentHash].confidenceScore = 85]

\* A vote that is accepted whether or not the sender has voted before.
voteAcceptedAgain(votes, contentHash, sender) == TRUE

\* require(!oracleVotes[_contentHash][msg.sender], "Already voted")
voteAccepted(votes, contentHash, sender) == ~votes[contentHash][sender]

\* function verifyContent(_contentHash, _authentic, _confidenceScore,
\*   _analysis) external
verifyContent(sender, contentHash, authentic) ==
  /\ sender \in oracles                                \* require(oracles[msg.sender].oracle != address(0))
  /\ authenticityProofs[contentHash].contentHash # 0   \* require(... != bytes32(0))
  /\ voteAccepted(oracleVotes, contentHash, sender)
  /\ oracleVoteCount[contentHash] < MaxVotes
  /\ oracleVotes' = [oracleVotes EXCEPT ![contentHash][sender] = TRUE]
  /\ oracleVoteCount' = [oracleVoteCount EXCEPT ![contentHash] = @ + 1]
  /\ totalVerifications' = [totalVerifications EXCEPT ![sender] = @ + 1]
  /\ authenticityProofs' =
       IF oracleVoteCount[contentHash] + 1 >= 3
         THEN finalizeVerification(authenticityProofs, contentHash)
         ELSE authenticityProofs
  /\ UNCHANGED <<callerVars, now, identityVars, registryVars, syncVars,
                 concurrentVars, realtimeVars, resolverVars, strategyVars,
                 contentVars, credentialVars>>

-----------------------------------------------------------------------------
(* CrossPlatformSyncEngine: syncCreatorProfile and syncWithPlatform *)

ConnectionStatuses == {"connected", "verified", "expired", "revoked"}

\* A bio is a sequence of characters.
BioHi     == <<"H", "i">>
BioHiPad  == <<"h", "i", " ">>
BioHello  == <<"H", "e", "l", "l", "o">>
Bios      == {BioHi, BioHiPad, BioHello}

\* What a platform may report: metrics.followerCount (or none) and, when the
\* bio changed since the last sync, changes.profile.bio.
FollowerCounts == {null, Some(0), Some(1000), Some(1400)}
BioChanges     == {null} \cup {Some(b) : b \in Bios}

\* How the calls inside the try block of syncWithPlatform end: one of them
\* throws an Error, or all return and the platform reports followerCount and
\* bio.
FetchOutcomes ==
  {[ok |-> FALSE, followerCount |-> null, bio |-> null]}
  \cup [ok : {TRUE}, followerCount : FollowerCounts, bio : BioChanges]

pending      == [state |-> "pending", value |-> null]
rejected     == [state |-> "rejected", value |-> null]
fulfilled(v) == [state |-> "fulfilled", value |-> v]

\* syncWithPlatform without its catch block: a throw rejects the promise.
syncWithPlatformNoCatch(platformId, outcome, time) ==
  IF outcome.ok
    THEN fulfilled(Some([platformId |-> platformId, success |-> TRUE,
                         error |-> null,
                         followerCount |-> outcome.followerCount,
                         bio |-> outcome.bio, lastSync |-> time]))
    ELSE rejected

\* syncWithPlatform(profile, connection, adapter): the value its promise
\* settles with, given how the fetch ended and the clock at that moment.
syncWithPlatform(platformId, outcome, time) ==
  IF outcome.ok
    THEN fulfilled(Some([platformId |-> platformId, success |-> TRUE,
                         error |-> null,
                         followerCount |-> outcome.followerCount,
                         bio |-> outcome.bio, lastSync |-> time]))
    ELSE \* catch (error)
         fulfilled(Some([platformId |-> platformId, success |-> FALSE,
                         error |-> Some("error"),
                         followerCount |-> null,
                         bio |-> null, lastSync |-> time]))

\* The dispatch test without its status half: if (adapter)
dispatchesAnyStatus(prof, platformId) == platformId \in platformAdapters

\* if (adapter && connection.connectionStatus === 'connected')
dispatches(prof, platformId) ==
  /\ platformId \in platformAdapters
  /\ prof.connectionStatus[platformId] = "connected"

\* Lines 89-99: read the profile and start one async callback per connection;
\* a callback that does not fetch resolves to null at once.
StartSync ==
  /\ pc = "idle"
  /\ cycleProfile' = Some(profile)
  /\ promises' = [p \in Platforms |->
                    IF dispatches(profile, p) THEN pending ELSE fulfilled(null)]
  /\ pc' = "fetching"
  /\ UNCHANGED <<contentVars, authenticityVars, credentialVars,
                 callerVars, now, profile, detected, recorded, syncResult,
                 identityVars, registryVars,
                 concurrentVars, realtimeVars,
                 resolverVars, strategyVars>>

\* One dispatched syncWithPlatform call settles; dt is the time that passed.
FetchSettles(platformId, outcome, dt) ==
  /\ pc = "fetching"
  /\ promises[platformId] = pending
  /\ now + dt <= MaxTime
  /\ now' = now + dt
  /\ promises' = [promises EXCEPT
                    ![platformId] = syncWithPlatform(platformId, outcome, now + dt)]
  /\ UNCHANGED <<contentVars, authenticityVars, credentialVars,
                 callerVars, profile, pc, cycleProfile, detected, recorded, syncResult,
                 identityVars, registryVars,
                 concurrentVars, realtimeVars,
                 resolverVars, strategyVars>>

-----------------------------------------------------------------------------
(* ConflictResolver *)

RECURSIVE SumSeq(_)
SumSeq(xs) == IF xs = <<>> THEN 0 ELSE Head(xs) + SumSeq(Tail(xs))

\* hasSignificantVariance(counts): the coefficient of variation (population
\* standard deviation over mean) exceeds 0.15, that is variance > (9/400) *
\* mean^2, in integers: 400 * (n * sum(x^2) - sum(x)^2) > 9 * sum(x)^2.
hasSignificantVariance(counts) ==
  LET n  == Len(counts)
      s  == SumSeq(counts)
      sq == SumSeq([i \in 1..n |-> counts[i] * counts[i]])
  IN 400 * (n * sq - s * s) > 9 * s * s

\* Case folding of the characters the bios use.
lower(c) == CASE c = "H" -> "h" [] OTHER -> c

RECURSIVE trimStart(_)
trimStart(b) == IF b # <<>> /\ Head(b) = " " THEN trimStart(Tail(b)) ELSE b

RECURSIVE trimEnd(_)
trimEnd(b) ==
  IF b # <<>> /\ b[Len(b)] = " " THEN trimEnd(SubSeq(b, 1, Len(b) - 1)) ELSE b

\* The case- and whitespace-normalized form of a bio.
normalize(b) == LET t == trimEnd(trimStart(b)) IN [i \in 1..Len(t) |-> lower(t[i])]

\* hasDifferentValues(bios): the values differ after normalization.
hasDifferentValues(bios) ==
  \E i, j \in 1..Len(bios) : normalize(bios[i]) # normalize(bios[j])

\* r.metrics?.followerCount || 0
countOrZero(r) ==
  IF r.followerCount # null /\ r.followerCount[1] # 0 THEN r.followerCount[1] ELSE 0

\* const followerCounts = syncResults.map(r => ({platform, count, timestamp}))
followerCounts(syncResults) ==
  [i \in 1..Len(syncResults) |->
     [platform |-> syncResults[i].platformId,
      count |-> Some(countOrZero(syncResults[i])),
      bio |-> null,
      value |-> null,
      timestamp |-> syncResults[i].lastSync]]

\* const bioUpdates = syncResults.filter(r => r.changes?.profile?.bio).map(...)
bioUpdates(syncResults) ==
  LET changed == SelectSeq(syncResults, LAMBDA r : r.bio # null /\ r.bio[1] # <<>>)
  IN [i \in 1..Len(changed) |->
        [platform |-> changed[i].platformId,
         count |-> null,
         bio |-> changed[i].bio,
         value |-> null,
         timestamp |-> changed[i].lastSync]]

\* detectConflicts(profile, syncResults)
detectConflicts(prof, syncResults) ==
  LET fc   == followerCounts(syncResults)
      bios == bioUpdates(syncResults)
  IN (IF hasSignificantVariance([i \in 1..Len(fc) |-> fc[i].count[1]])
        THEN <<[type |-> "follower_count_variance",
                field |-> "metrics.followerCount",
                values |-> fc,
                severity |-> "medium",
                autoResolvable |-> TRUE]>>
        ELSE <<>>)
     \o
     (IF Len(bios) > 1 /\ hasDifferentValues([i \in 1..Len(bios) |-> bios[i].bio[1]])
        THEN <<[type |-> "bio_conflict",
                field |-> "personalInfo.bio",
                values |-> bios,
                severity |-> "high",
                autoResolvable |-> FALSE]>>
        ELSE <<>>)

\* conflict.values.reduce((prev, curr) => curr.timestamp > prev.timestamp ? curr : prev)
RECURSIVE latestOf(_, _)
latestOf(prev, rest) ==
  IF rest = <<>> THEN prev
  ELSE latestOf(IF Head(rest).timestamp > prev.timestamp THEN Head(rest) ELSE prev,
                Tail(rest))

\* A latest-timestamp strategy that looks at the wall clock: candidates
\* stamped later than now are passed over.
LatestSoFarStrategy(conflict) ==
  LET seen   == SelectSeq(conflict.values, LAMBDA v : v.timestamp <= now)
      values == IF seen = <<>> THEN conflict.values ELSE seen
      latest == latestOf(Head(values), Tail(values))
  IN [resolvedValue |-> IF latest.count # null /\ latest.count[1] # 0
                          THEN latest.count ELSE latest.value,
      strategy |-> "latest_timestamp",
      confidence |-> 90,
      source |-> latest.platform]

\* LatestTimestampStrategy.resolve: resolvedValue is latest.count || latest.value;
\* the candidates detectConflicts builds carry no `value`.
LatestTimestampStrategy(conflict) ==
  LET latest == latestOf(Head(conflict.values), Tail(conflict.values))
  IN [resolvedValue |-> IF latest.count # null /\ latest.count[1] # 0
                          THEN latest.count ELSE latest.value,
      strategy |-> "latest_timestamp",
      confidence |-> 90,
      source |-> latest.platform]

\* LongestValueStrategy.resolve: the longer normalized bio wins, the later
\* timestamp breaking ties.
RECURSIVE longestOf(_, _)
longestOf(prev, rest) ==
  IF rest = <<>> THEN prev
  ELSE LET curr   == Head(rest)
           lp     == Len(normalize(prev.bio[1]))
           lc     == Len(normalize(curr.bio[1]))
           better == lc > lp \/ (lc = lp /\ curr.timestamp > prev.timestamp)
       IN longestOf(IF better THEN curr ELSE prev, Tail(rest))

LongestValueStrategy(conflict) ==
  LET longest == longestOf(Head(conflict.values), Tail(conflict.values))
  IN [resolvedValue |-> longest.bio,
      strategy |-> "longest_value",
      confidence |-> 80,
      source |-> longest.platform]

\* WeightedAverageStrategy.resolve: the candidates' values averaged, each
\* weighted by its platform's follower count (1 if absent), and rounded.
WeightedAverageStrategy(conflict) ==
  LET n      == Len(conflict.values)
      value  == [i \in 1..n |-> IF conflict.values[i].count # null
                                  THEN conflict.values[i].count[1] ELSE 0]
      weight == [i \in 1..n |-> IF value[i] > 0 THEN value[i] ELSE 1]
      num    == SumSeq([i \in 1..n |-> weight[i] * value[i]])
      den    == SumSeq(weight)
  IN [resolvedValue |-> Some((2 * num + den) \div (2 * den)),
      strategy |-> "weighted_average",
      confidence |-> 85,
      source |-> "all"]

\* A registry in which follower-count conflicts are averaged.
resolutionStrategiesAveraging(conflict) ==
  CASE conflict.type = "follower_count_variance" -> WeightedAverageStrategy(conflict)
    [] conflict.type = "bio_conflict"            -> LongestValueStrategy(conflict)
    [] conflict.type = "engagement_variance"     -> WeightedAverageStrategy(conflict)

\* A strategy that takes the first candidate, verified or not.
FirstCandidateStrategy(conflict, prof) ==
  [resolvedValue |-> Head(conflict.values).value,
   strategy |-> "verified_platform",
   confidence |-> 95,
   source |-> Head(conflict.values).platform]

\* VerifiedPlatformStrategy.resolve: the value of the first candidate whose
\* platform is in profile.verificationStatus.platformsVerified, and without
\* one the latest-timestamp resolution.
VerifiedPlatformStrategy(conflict, prof) ==
  LET verified == SelectSeq(conflict.values,
                            LAMBDA v : v.platform \in prof.platformsVerified)
  IN IF verified # <<>>
       THEN [resolvedValue |-> Head(verified).value,
             strategy |-> "verified_platform",
             confidence |-> 95,
             source |-> Head(verified).platform]
       ELSE LatestTimestampStrategy(conflict)

\* initializeStrategies: the strategy registered for a conflict type.
resolutionStrategies(conflict) ==
  CASE conflict.type = "follower_count_variance" -> LatestTimestampStrategy(conflict)
    [] conflict.type = "bio_conflict"            -> LongestValueStrategy(conflict)
    [] conflict.type = "engagement_variance"     -> WeightedAverageStrategy(conflict)

\* strategy.resolve(conflict, profile, syncResults) with the strategy
\* registered for the conflict's type; VerifiedPlatformStrategy, registered
\* for username_conflict, is the one that reads the profile.
strategyResolve(conflict, prof) ==
  IF conflict.type = "username_conflict"
    THEN VerifiedPlatformStrategy(conflict, prof)
    ELSE resolutionStrategies(conflict)

\* applyResolution(resolvedProfile, resolution): the resolved value is written
\* to the conflict's field.
applyResolution(prof, conflict, resolution) ==
  CASE conflict.field = "metrics.followerCount" ->
         [prof EXCEPT !.followerCount = resolution.resolvedValue]
    [] conflict.field = "personalInfo.bio" ->
         [prof EXCEPT !.bio = resolution.resolvedValue]

\* The loop of resolve(profile, syncResults) over the detected conflicts.
RECURSIVE resolveAll(_, _)
resolveAll(prof, conflicts) ==
  IF conflicts = <<>> THEN prof
  ELSE resolveAll(applyResolution(prof, Head(conflicts),
                                  resolutionStrategies(Head(conflicts))),
                  Tail(conflicts))

\* recordConflict(conflict, resolution), once per resolved conflict.
recordAll(conflicts) ==
  [i \in 1..Len(conflicts) |->
     [conflict |-> conflicts[i], resolution |-> resolutionStrategies(conflicts[i])]]

\* getConflicts() and getUpdatedFields(): what the resolver recorded.
getConflicts(history)     == [i \in 1..Len(history) |-> history[i].conflict]
getUpdatedFields(history) == [i \in 1..Len(history) |-> history[i].conflict.field]

-----------------------------------------------------------------------------
(* syncCreatorProfile, from `await Promise.all(syncPromises)` to its return *)

\* const results = await Promise.all(syncPromises), in connection order.
resultsOf(ps) == [i \in 1..Len(PlatformOrder) |-> ps[PlatformOrder[i]].value]

\* results.filter(r => r !== null)
validResultsOf(ps) ==
  LET kept == SelectSeq(resultsOf(ps), LAMBDA r : r # null)
  IN [i \in 1..Len(kept) |-> kept[i][1]]

\* A SyncResult whose flag asks for one successful fetch only.
syncResultOfSome(validResults, history, time) ==
  [success         |-> \E i \in 1..Len(validResults) : validResults[i].success,
   syncedPlatforms |-> [i \in 1..Len(validResults) |-> validResults[i].platformId],
   conflicts       |-> getConflicts(history),
   updatedFields   |-> getUpdatedFields(history),
   timestamp       |-> time]

\* The SyncResult literal of lines 108-114.
syncResultOf(validResults, history, time) ==
  [success         |-> \A i \in 1..Len(validResults) : validResults[i].success,
   syncedPlatforms |-> [i \in 1..Len(validResults) |-> validResults[i].platformId],
   conflicts       |-> getConflicts(history),
   updatedFields   |-> getUpdatedFields(history),
   timestamp       |-> time]

\* A combinator that settles as soon as one of its promises has settled.
settledAny(ps) == \E p \in DOMAIN ps : ps[p] # pending

\* Promise.all(syncPromises) has settled: it rejects as soon as one promise
\* rejects, and otherwise fulfils once every promise has.
settledAll(ps) ==
  \/ \E p \in DOMAIN ps : ps[p] = rejected
  \/ \A p \in DOMAIN ps : ps[p] # pending

\* The await of Promise.all returns; then conflicts are resolved, the profile
\* is stored and the result returned.
AwaitAll ==
  /\ pc = "fetching"
  /\ settledAll(promises)
  /\ IF \E p \in Platforms : promises[p] = rejected
       THEN /\ pc' = "failed"
            /\ UNCHANGED <<profile, detected, recorded, syncResult>>
       ELSE LET validResults == validResultsOf(promises)
                conflicts    == detectConflicts(cycleProfile[1], validResults)
                resolved     == resolveAll(cycleProfile[1], conflicts)
                history      == recorded \o recordAll(conflicts)
            IN /\ detected' = conflicts
               /\ recorded' = history
               /\ profile' = resolved
               /\ syncResult' = Some(syncResultOf(validResults, history, now))
               /\ pc' = "done"
  /\ UNCHANGED <<contentVars, authenticityVars, credentialVars,
                 callerVars, now, cycleProfile, promises, identityVars, registryVars,
                 concurrentVars, realtimeVars,
                 resolverVars, strategyVars>>

\* The caller cancels the cycle while its fetches are in flight.
\* syncCreatorProfile(creatorId) takes no signal and reads no flag: the engine
\* has nothing that the cancellation reaches.
Cancel ==
  /\ pc = "fetching"
  /\ \E p \in Platforms : promises[p] = pending
  /\ ~cancelled
  /\ cancelled' = TRUE
  /\ UNCHANGED <<contentVars, authenticityVars, credentialVars,
                 request, now, syncVars, identityVars, registryVars, concurrentVars,
                 realtimeVars, resolverVars, strategyVars>>

\* resolve's loop when the strategy of the k-th conflict throws (k = 0: none
\* does): the conflicts before it have been applied to the copy and recorded,
\* and the exception leaves the loop.
resolveOutcome(prof, conflicts, k) ==
  LET done == IF k = 0 THEN conflicts ELSE SubSeq(conflicts, 1, k - 1)
  IN [threw   |-> k # 0,
      profile |-> resolveAll(prof, done),
      history |-> recordAll(done)]

\* A store that keeps whatever resolve had reached.
storedEitherWay(storedProfile, outcome) == outcome.profile

\* await this.updateCreatorProfile(resolvedProfile) follows the awaited
\* resolve: it runs only when resolve returned.
storedAfter(storedProfile, outcome) ==
  IF outcome.threw THEN storedProfile ELSE outcome.profile

\* syncCreatorProfile from `await Promise.all` on, when the strategy of the
\* k-th detected conflict throws: resolve rejects, and so does the cycle.
AwaitAllThrows(k) ==
  /\ pc = "fetching"
  /\ settledAll(promises)
  /\ \A p \in Platforms : promises[p] # rejected
  /\ LET validResults == validResultsOf(promises)
         conflicts    == detectConflicts(cycleProfile[1], validResults)
         outcome      == resolveOutcome(cycleProfile[1], conflicts, k)
     IN /\ k \in 1..Len(conflicts)
        /\ detected' = conflicts
        /\ recorded' = recorded \o outcome.history
        /\ profile' = storedAfter(profile, outcome)
        /\ pc' = "failed"
  /\ UNCHANGED <<contentVars, authenticityVars, credentialVars,
                 callerVars, now, cycleProfile, promises, syncResult, identityVars,
                 registryVars, concurrentVars, realtimeVars, resolverVars,
                 strategyVars>>

\* conflictResolver.resolve(profile, syncResults) called on its own: the
\* conflicts of the given results are detected, resolved and recorded, and
\* the resolved copy of the profile is returned.
resolve ==
  /\ resolveArgs # <<>>
  /\ resolveRet = null
  /\ LET conflicts == detectConflicts(profile, resolveArgs)
     IN /\ detected' = conflicts
        /\ recorded' = recorded \o recordAll(conflicts)
        /\ resolveRet' = Some(resolveAll(profile, conflicts))
  /\ UNCHANGED <<contentVars, authenticityVars, credentialVars,
                 callerVars, now, profile, pc, cycleProfile, promises, syncResult,
                 resolveArgs, identityVars, registryVars, concurrentVars,
                 realtimeVars, strategyVars>>

\* One conflict goes through the body of resolve's loop: the registered
\* strategy resolves it and recordConflict keeps the result.
resolveConflict ==
  /\ strategyArgs # null
  /\ Len(strategyRets) < MaxRuns
  /\ LET conflict   == strategyArgs[1].conflict
         resolution == strategyResolve(conflict, strategyArgs[1].profile)
     IN /\ strategyRets' = Append(strategyRets, resolution)
        /\ recorded' = Append(recorded, [conflict |-> conflict,
                                         resolution |-> resolution])
  /\ UNCHANGED <<contentVars, authenticityVars, credentialVars,
                 callerVars, now, profile, pc, cycleProfile, promises, detected, syncResult,
                 strategyArgs, identityVars, registryVars, concurrentVars,
                 realtimeVars, resolverVars>>

-----------------------------------------------------------------------------
(* Overlapping calls on one engine. syncCreatorProfile and handleRealTimeUpdate
   are async methods of one CrossPlatformSyncEngine that take no lock and keep
   no in-flight marker, so a call may start while another is suspended at an
   await. A second syncCreatorProfile call runs the steps of the first on its
   own locals; the conflictResolver, with its history, is the engine's. *)

\* Lines 89-99, for the second call.
StartSync2 ==
  /\ pc2 = "idle"
  /\ cycleProfile2' = Some(profile)
  /\ promises2' = [p \in Platforms |->
                     IF dispatches(profile, p) THEN pending ELSE fulfilled(null)]
  /\ pc2' = "fetching"
  /\ UNCHANGED <<contentVars, authenticityVars, credentialVars,
                 callerVars, now, syncResult2, rt, syncVars, identityVars, registryVars,
                 realtimeVars,
                 resolverVars, strategyVars>>

\* One dispatched syncWithPlatform call of the second call settles.
FetchSettles2(platformId, outcome, dt) ==
  /\ pc2 = "fetching"
  /\ promises2[platformId] = pending
  /\ now + dt <= MaxTime
  /\ now' = now + dt
  /\ promises2' = [promises2 EXCEPT
                     ![platformId] = syncWithPlatform(platformId, outcome, now + dt)]
  /\ UNCHANGED <<contentVars, authenticityVars, credentialVars,
                 callerVars, pc2, cycleProfile2, syncResult2, rt, syncVars, identityVars,
                 registryVars, realtimeVars,
                 resolverVars, strategyVars>>

\* Lines 101-114, for the second call.
AwaitAll2 ==
  /\ pc2 = "fetching"
  /\ settledAll(promises2)
  /\ IF \E p \in Platforms : promises2[p] = rejected
       THEN /\ pc2' = "failed"
            /\ UNCHANGED <<profile, recorded, syncResult2>>
       ELSE LET validResults == validResultsOf(promises2)
                conflicts    == detectConflicts(cycleProfile2[1], validResults)
                resolved     == resolveAll(cycleProfile2[1], conflicts)
                history      == recorded \o recordAll(conflicts)
            IN /\ recorded' = history
               /\ profile' = resolved
               /\ syncResult2' = Some(syncResultOf(validResults, history, now))
               /\ pc2' = "done"
  /\ UNCHANGED <<contentVars, authenticityVars, credentialVars,
                 callerVars, now, pc, cycleProfile, promises, detected, syncResult,
                 cycleProfile2, promises2, rt, identityVars, registryVars,
                 realtimeVars,
                 resolverVars, strategyVars>>

\* conflictResolver.resolveRealtimeUpdate with the store of its result: the
\* fields the update carries are written to the profile, the others kept.
resolveRealtimeUpdate(prof, platformId, updateData) ==
  [prof EXCEPT
     !.followerCount = IF updateData.followerCount # null
                         THEN updateData.followerCount ELSE @,
     !.bio = IF updateData.bio # null THEN updateData.bio ELSE @]

\* handleRealTimeUpdate, lines 157-160: the profile is read and the
\* connection of platformId looked up; without one the call returns.
StartRealTimeUpdate(platformId, updateData) ==
  /\ rt.pc = "idle"
  /\ rt' = [pc |-> IF platformId \in DOMAIN profile.connectionStatus
                     THEN "resolving" ELSE "done",
            profile |-> Some(profile),
            platformId |-> Some(platformId),
            updateData |-> Some(updateData)]
  /\ UNCHANGED <<contentVars, authenticityVars, credentialVars,
                 callerVars, now, pc2, cycleProfile2, promises2, syncResult2, syncVars,
                 identityVars, registryVars, realtimeVars,
                 resolverVars, strategyVars>>

\* handleRealTimeUpdate, lines 161-173: the update is resolved, propagated
\* and recorded. Its fields are written onto the profile as stored at that
\* moment, the write that loses least.
FinishRealTimeUpdate ==
  /\ rt.pc = "resolving"
  /\ profile' = resolveRealtimeUpdate(profile, rt.platformId[1], rt.updateData[1])
  /\ rt' = [rt EXCEPT !.pc = "done"]
  /\ UNCHANGED <<contentVars, authenticityVars, credentialVars,
                 callerVars, now, pc, cycleProfile, promises, detected, recorded, syncResult,
                 pc2, cycleProfile2, promises2, syncResult2, identityVars,
                 registryVars, realtimeVars,
                 resolverVars, strategyVars>>

-----------------------------------------------------------------------------
(* RealtimeSyncService *)

\* The platforms initializeWebhooks has a handler for: TikTokWebhookHandler is
\* the one handler class.
platformWebhooks == {"tiktok"}

\* ws.on('open'): websocketConnections.set(creatorId, ws), and
\* setupPlatformWebhooks(creatorId) is called and not awaited: it runs up to
\* its first await, of getCreatorProfile.
SocketOpen ==
  /\ ~websocketConnections
  /\ Len(setups) < MaxSetups
  /\ websocketConnections' = TRUE
  /\ setups' = Append(setups, "getCreatorProfile")
  /\ UNCHANGED <<contentVars, authenticityVars, credentialVars,
                 callerVars, now, syncQueue, broadcasts, delivered, subscriptions,
                 identityVars, registryVars, syncVars, concurrentVars,
                 resolverVars, strategyVars>>

\* cleanupWebhooks(creatorId): the creator's subscriptions are given up.
cleanupWebhooks(subs) == {}

\* ws.on('close'): websocketConnections.delete(creatorId) and
\* cleanupWebhooks(creatorId). A running setupPlatformWebhooks call is not
\* reached by either.
SocketClose ==
  /\ websocketConnections
  /\ websocketConnections' = FALSE
  /\ subscriptions' = cleanupWebhooks(subscriptions)
  /\ UNCHANGED <<contentVars, authenticityVars, credentialVars,
                 callerVars, now, syncQueue, broadcasts, delivered, setups,
                 identityVars, registryVars, syncVars, concurrentVars,
                 resolverVars, strategyVars>>

\* Without the i-th element.
without(xs, i) == [j \in 1..(Len(xs) - 1) |-> IF j < i THEN xs[j] ELSE xs[j + 1]]

\* setupPlatformWebhooks, after `await this.getCreatorProfile(creatorId)`: the
\* loop reaches the connection of a platform with a handler and awaits its
\* subscribe.
SetupReadsProfile(i) ==
  /\ i \in 1..Len(setups)
  /\ setups[i] = "getCreatorProfile"
  /\ setups' = IF platformWebhooks \cap DOMAIN profile.connectionStatus = {}
                 THEN without(setups, i)
                 ELSE [setups EXCEPT ![i] = "subscribe"]
  /\ UNCHANGED <<contentVars, authenticityVars, credentialVars,
                 callerVars, now, websocketConnections, syncQueue, broadcasts,
                 delivered, subscriptions,
                 identityVars, registryVars, syncVars, concurrentVars,
                 resolverVars, strategyVars>>

\* setupPlatformWebhooks, after `await webhookHandler.subscribe(creatorId,
\* connection)`: the platform holds the subscription and the call returns.
SetupSubscribes(i) ==
  /\ i \in 1..Len(setups)
  /\ setups[i] = "subscribe"
  /\ subscriptions' = subscriptions \cup platformWebhooks
  /\ setups' = without(setups, i)
  /\ UNCHANGED <<contentVars, authenticityVars, credentialVars,
                 callerVars, now, websocketConnections, syncQueue, broadcasts,
                 delivered,
                 identityVars, registryVars, syncVars, concurrentVars,
                 resolverVars, strategyVars>>

\* The update types calculatePriority knows, and one it does not.
WebhookTypes == {"follower_milestone", "metrics_update", "account_linked"}

\* WebhookData as a platform's handleWebhook builds it: {type, platformId,
\* data, timestamp}.
WebhookEvents ==
  [type : WebhookTypes, platformId : {"tiktok"},
   data : {[followerCount |-> Some(1400), bio |-> null],
           [followerCount |-> null, bio |-> Some(BioHello)]},
   timestamp : {0}]

\* priorityMap[webhookData.type] || 5
calculatePriority(webhookData) ==
  CASE webhookData.type = "follower_milestone" -> 9
    [] webhookData.type = "viral_content"      -> 8
    [] webhookData.type = "profile_update"     -> 7
    [] webhookData.type = "new_content"        -> 6
    [] webhookData.type = "engagement_spike"   -> 5
    [] webhookData.type = "metrics_update"     -> 3
    [] OTHER                                   -> 5

\* transformWebhookData(platformId, webhookData): the update the event carries.
transformWebhookData(platformId, webhookData) == webhookData.data

\* The entry handlePlatformWebhook passes to syncQueue.enqueue.
queueEntry(platformId, webhookData, time) ==
  [platformId |-> platformId,
   updateType |-> webhookData.type,
   data       |-> transformWebhookData(platformId, webhookData),
   priority   |-> calculatePriority(webhookData),
   timestamp  |-> time]

\* await this.syncQueue.enqueue(entry): the queue holds one more entry.
enqueue(queue, entry) == Append(queue, entry)

\* handlePlatformWebhook(platformId, creatorId, webhookData): the update is
\* enqueued and, when the creator's socket is open, broadcast.
handlePlatformWebhook(platformId, webhookData) ==
  /\ Len(syncQueue) < MaxQueue
  /\ delivered' = delivered \cup {webhookData}
  /\ syncQueue' = enqueue(syncQueue, queueEntry(platformId, webhookData, now))
  /\ broadcasts' =
       IF websocketConnections
         THEN Append(broadcasts,
                     [type |-> "profile_update",
                      data |-> transformWebhookData(platformId, webhookData),
                      timestamp |-> now])
         ELSE broadcasts
  /\ UNCHANGED <<contentVars, authenticityVars, credentialVars,
                 callerVars, now, websocketConnections, subscriptions, setups,
                 identityVars, registryVars,
                 syncVars, concurrentVars,
                 resolverVars, strategyVars>>

-----------------------------------------------------------------------------
(* Initial values of the components *)

IdentityInit == /\ stored = NoIdentity
                /\ ret = [op |-> "none", ok |-> TRUE, value |-> null]
                /\ onChain = null

RegistryInit == creators = [a \in Addresses |-> noCreator]

\* The stored profile before the first cycle: every platform has a connection
\* in some status.
SyncInit == /\ profile \in [connectionStatus : [Platforms -> ConnectionStatuses],
                            followerCount : {Some(1000)},
                            bio : {Some(BioHi)}]
            /\ pc = "idle"
            /\ cycleProfile = null
            /\ promises = [p \in Platforms |-> fulfilled(null)]
            /\ detected = <<>>
            /\ recorded = <<>>
            /\ syncResult = null

SyncIdle == /\ profile = [connectionStatus |-> [p \in Platforms |-> "revoked"],
                          followerCount |-> Some(1000),
                          bio |-> Some(BioHi)]
            /\ pc = "idle"
            /\ cycleProfile = null
            /\ promises = [p \in Platforms |-> fulfilled(null)]
            /\ detected = <<>>
            /\ recorded = <<>>
            /\ syncResult = null

\* No second call and no real-time update is running.
ConcurrentIdle == /\ pc2 = "idle"
                  /\ cycleProfile2 = null
                  /\ promises2 = [p \in Platforms |-> fulfilled(null)]
                  /\ syncResult2 = null
                  /\ rt = [pc |-> "idle", profile |-> null,
                           platformId |-> null, updateData |-> null]

\* new RealtimeSyncService(): no socket, an empty queue, nothing sent.
RealtimeInit == /\ websocketConnections = FALSE
                /\ syncQueue = <<>>
                /\ broadcasts = <<>>
                /\ delivered = {}
                /\ subscriptions = {}
                /\ setups = <<>>

\* No direct call of the resolver.
ResolverIdle == resolveArgs = <<>> /\ resolveRet = null

\* The caller has cancelled nothing.
CallerIdle == cancelled = FALSE /\ request = null

\* The registry as deployed: no content proof.
ContentInit == /\ contentRegistry = [h \in Hashes |-> noContentProof]
               /\ contentProofs = [a \in Addresses |-> [h \in Hashes |-> noContentProof]]

\* The engine as deployed: no proof submitted, no vote cast.
AuthenticityInit == /\ authenticityProofs = [h \in Hashes |-> noAuthenticityProof]
                    /\ oracleVotes = [h \in Hashes |-> [o \in Senders \cup oracles |-> FALSE]]
                    /\ oracleVoteCount = [h \in Hashes |-> 0]
                    /\ totalVerifications = [o \in oracles |-> 0]

\* No content has been verified, and the authenticator finds no evidence.
CredentialInit == /\ authenticator = [weights |-> evenWeights,
                                      evidence |-> [k \in SubScores |-> null]]
                  /\ credentials = <<>>

\* No conflict is being resolved on its own.
StrategyIdle == strategyArgs = null /\ strategyRets = <<>>

-----------------------------------------------------------------------------
(* The specifications *)

\* CreativeIdentity: one identity is created and verification methods added.
IdentityNext ==
  \/ \E c \in BiometricConfidences, requested \in SUBSET platformAdapters,
        externalOk \in BOOLEAN :
       \E connects \in SUBSET requested :
         createIdentity(c, requested, connects, externalOk)
  \/ \E m \in MethodInputs : updateVerificationLevel(m)
  \/ Tick

IdentitySpecInit == now = 0 /\ IdentityInit /\ RegistryInit /\ SyncIdle
                    /\ ConcurrentIdle /\ RealtimeInit /\ CallerIdle /\ ContentInit
    /\ AuthenticityInit /\ CredentialInit /\ ResolverIdle
                    /\ StrategyIdle

IdentitySpec == IdentitySpecInit /\ [][IdentityNext]_vars

\* CreativeIdentity called with whatever reaches it at run time: the methods
\* the type describes and those it does not.
ValidationNext ==
  \/ \E c \in BiometricConfidences, requested \in SUBSET platformAdapters,
        externalOk \in BOOLEAN :
       \E connects \in SUBSET requested :
         createIdentity(c, requested, connects, externalOk)
  \/ \E m \in MethodInputs \cup InvalidMethodInputs : updateVerificationLevel(m)

ValidationSpecInit == now = 0 /\ IdentityInit /\ RegistryInit /\ SyncIdle
                      /\ ConcurrentIdle /\ RealtimeInit /\ CallerIdle /\ ContentInit
    /\ AuthenticityInit /\ CredentialInit
                      /\ ResolverIdle /\ StrategyIdle

ValidationSpec == ValidationSpecInit /\ [][ValidationNext]_vars

\* CreativeIdentityRegistry: creators register and oracles verify platforms.
RegistryNext ==
  \/ \E sender \in Addresses : registerCreator(sender)
  \/ \E sender \in Senders, creator \in Addresses, platform \in Platforms :
       verifyPlatformConnection(sender, creator, platform)

RegistrySpecInit == now = 0 /\ IdentityInit /\ RegistryInit /\ SyncIdle
                    /\ ConcurrentIdle /\ RealtimeInit /\ CallerIdle /\ ContentInit
    /\ AuthenticityInit /\ CredentialInit /\ ResolverIdle
                    /\ StrategyIdle

RegistrySpec == RegistrySpecInit /\ [][RegistryNext]_vars

\* CreativeIdentityRegistry: creators register and add content proofs.
ContentNext ==
  \/ \E sender \in Addresses : registerCreator(sender)
  \/ \E sender \in Addresses, contentHash \in Hashes, platformOrigin \in Origins,
        signed \in BOOLEAN :
       addContentProof(sender, contentHash, platformOrigin, signed)
  \/ Tick

ContentSpecInit == now = 0 /\ IdentityInit /\ RegistryInit /\ SyncIdle
                   /\ ConcurrentIdle /\ RealtimeInit /\ CallerIdle /\ ContentInit
                   /\ AuthenticityInit /\ CredentialInit /\ ResolverIdle
                   /\ StrategyIdle

ContentSpec == ContentSpecInit /\ [][ContentNext]_vars

\* ContentAuthenticityEngine: proofs are submitted and oracles vote.
AuthenticityNext ==
  \/ \E sender \in Addresses, contentHash \in Hashes :
       submitForVerification(sender, contentHash, 7, <<"camera_signature">>)
  \/ \E sender \in Senders \cup oracles, contentHash \in Hashes,
        authentic \in BOOLEAN :
       verifyContent(sender, contentHash, authentic)
  \/ Tick

AuthenticitySpecInit == now = 0 /\ IdentityInit /\ RegistryInit /\ SyncIdle
                        /\ ConcurrentIdle /\ RealtimeInit /\ CallerIdle /\ ContentInit
                        /\ AuthenticityInit /\ CredentialInit /\ ResolverIdle
                        /\ StrategyIdle

AuthenticitySpec == AuthenticitySpecInit /\ [][AuthenticityNext]_vars

\* CreativeIdentity.ts: contents are verified, some of them twice, by an
\* authenticator with any of the weights and any evidence.
CredentialNext ==
  \E contentData \in ContentData, platformOrigin \in Origins, chainOk \in BOOLEAN :
    verifyContentAuthenticity(contentData, platformOrigin, chainOk)

CredentialSpecInit == /\ now = 0 /\ IdentityInit /\ RegistryInit /\ SyncIdle
                      /\ ConcurrentIdle /\ RealtimeInit /\ CallerIdle /\ ContentInit
                      /\ AuthenticityInit /\ ResolverIdle /\ StrategyIdle
                      /\ authenticator \in [weights : WeightVectors,
                                            evidence : [SubScores -> SubScoreInputs]]
                      /\ credentials = <<>>

CredentialSpec == CredentialSpecInit /\ [][CredentialNext]_vars

\* CrossPlatformSyncEngine: one sync cycle of one creator.
SyncNext ==
  \/ StartSync
  \/ \E p \in Platforms, outcome \in FetchOutcomes, dt \in {0, 1} :
       FetchSettles(p, outcome, dt)
  \/ AwaitAll

SyncSpecInit == now = 0 /\ IdentityInit /\ RegistryInit /\ SyncInit
                    /\ ConcurrentIdle /\ RealtimeInit /\ CallerIdle /\ ContentInit
    /\ AuthenticityInit /\ CredentialInit /\ ResolverIdle
                    /\ StrategyIdle

SyncSpec == SyncSpecInit /\ [][SyncNext]_vars

\* What the platforms answer and what a real-time update carries when calls
\* overlap.
ConcurrentOutcomes ==
  [ok : {TRUE}, followerCount : {Some(1000), Some(1400)}, bio : {null}]

UpdatePlatforms == {"tiktok", "twitch"}

UpdateData == {[followerCount |-> null, bio |-> Some(BioHello)],
               [followerCount |-> Some(1400), bio |-> null]}

\* The stored profile when calls overlap: two connected platforms with an
\* adapter and a connected one without.
ConcurrentSyncInit ==
  /\ profile = [connectionStatus |-> [p \in Platforms |-> "connected"],
                followerCount |-> Some(1000),
                bio |-> Some(BioHi)]
  /\ pc = "idle"
  /\ cycleProfile = null
  /\ promises = [p \in Platforms |-> fulfilled(null)]
  /\ detected = <<>>
  /\ recorded = <<>>
  /\ syncResult = null

\* CrossPlatformSyncEngine under overlapping calls: two syncCreatorProfile
\* calls and one handleRealTimeUpdate call for the same creator.
ConcurrentNext ==
  \/ StartSync
  \/ \E p \in Platforms, outcome \in ConcurrentOutcomes, dt \in {0, 1} :
       FetchSettles(p, outcome, dt)
  \/ AwaitAll
  \/ StartSync2
  \/ \E p \in Platforms, outcome \in ConcurrentOutcomes, dt \in {0, 1} :
       FetchSettles2(p, outcome, dt)
  \/ AwaitAll2
  \/ \E platformId \in UpdatePlatforms, updateData \in UpdateData :
       StartRealTimeUpdate(platformId, updateData)
  \/ FinishRealTimeUpdate

ConcurrentSpecInit == now = 0 /\ IdentityInit /\ RegistryInit /\ ConcurrentSyncInit
                      /\ ConcurrentIdle /\ RealtimeInit /\ CallerIdle /\ ContentInit
    /\ AuthenticityInit /\ CredentialInit /\ ResolverIdle
                    /\ StrategyIdle

ConcurrentSpec == ConcurrentSpecInit /\ [][ConcurrentNext]_vars

\* RealtimeSyncService: the creator's socket opens and closes, and platforms
\* deliver webhook events, some of them more than once.
RealtimeNext ==
  \/ SocketOpen
  \/ SocketClose
  \/ \E i \in 1..MaxSetups : SetupReadsProfile(i)
  \/ \E i \in 1..MaxSetups : SetupSubscribes(i)
  \/ \E webhookData \in WebhookEvents :
       handlePlatformWebhook(webhookData.platformId, webhookData)
  \/ Tick

RealtimeSpecInit == now = 0 /\ IdentityInit /\ RegistryInit /\ SyncIdle
                    /\ ConcurrentIdle /\ RealtimeInit /\ CallerIdle /\ ContentInit
    /\ AuthenticityInit /\ CredentialInit /\ ResolverIdle
                    /\ StrategyIdle

RealtimeSpec == RealtimeSpecInit /\ [][RealtimeNext]_vars

\* What one platform's sync result may hold when the resolver is called on
\* its own: a failure, any follower count, or a changed bio, the empty one
\* included.
ResolverOutcomes ==
  {[ok |-> FALSE, followerCount |-> null, bio |-> null]}
    \cup [ok : {TRUE}, followerCount : FollowerCounts, bio : {null}]
    \cup [ok : {TRUE}, followerCount : {Some(1000)},
          bio : {Some(<<>>), Some(BioHi), Some(BioHiPad), Some(BioHello)}]

\* The sequences of platforms without repetition, in every order.
PlatformLists ==
  {ps \in UNION {[1..n -> Platforms] : n \in 1..Len(PlatformOrder)} :
     \A i, j \in 1..Len(ps) : i # j => ps[i] # ps[j]}

\* The syncResults lists for a platform list: one result per platform, each
\* as syncWithPlatform builds it.
SyncResultLists(ps) ==
  {[i \in 1..Len(ps) |->
      syncWithPlatform(ps[i], f[i].outcome, f[i].time).value[1]] :
     f \in [1..Len(ps) -> [outcome : ResolverOutcomes, time : {0, 1}]]}

\* ConflictResolver: resolve is called once on a list of sync results.
ResolverNext == resolve

ResolverSpecInit == /\ now = 0 /\ IdentityInit /\ RegistryInit /\ SyncIdle
                    /\ ConcurrentIdle /\ RealtimeInit /\ CallerIdle /\ ContentInit
    /\ AuthenticityInit /\ CredentialInit
                    /\ \E ps \in PlatformLists : resolveArgs \in SyncResultLists(ps)
                    /\ resolveRet = null
                    /\ StrategyIdle

ResolverSpec == ResolverSpecInit /\ [][ResolverNext]_vars

\* CrossPlatformSyncEngine: one sync cycle in which a strategy may throw.
FaultNext ==
  \/ StartSync
  \/ \E p \in Platforms, outcome \in FetchOutcomes, dt \in {0, 1} :
       FetchSettles(p, outcome, dt)
  \/ AwaitAll
  \/ \E k \in 1..2 : AwaitAllThrows(k)

FaultSpecInit == /\ now = 0 /\ IdentityInit /\ RegistryInit /\ ConcurrentSyncInit
                 /\ ConcurrentIdle /\ RealtimeInit /\ CallerIdle /\ ContentInit
    /\ AuthenticityInit /\ CredentialInit /\ ResolverIdle
                 /\ StrategyIdle

FaultSpec == FaultSpecInit /\ [][FaultNext]_vars

\* The adapters that answer every fetch sooner or later; the others may never
\* answer.
Responsive == {"tiktok"}

\* One sync cycle as the event loop runs it: the rest of syncCreatorProfile
\* runs once Promise.all has settled, and the fetch of a responsive adapter
\* settles. Nothing in syncWithPlatform ends a fetch that is not answered.
LiveSyncSpec ==
  /\ SyncSpecInit /\ [][SyncNext]_vars
  /\ WF_vars(AwaitAll)
  /\ \A p \in Responsive :
       WF_vars(\E outcome \in FetchOutcomes, dt \in {0, 1} :
                 FetchSettles(p, outcome, dt))

\* CrossPlatformSyncEngine: one sync cycle that the caller may cancel.
CancelNext ==
  \/ StartSync
  \/ \E p \in Platforms, outcome \in FetchOutcomes, dt \in {0, 1} :
       FetchSettles(p, outcome, dt)
  \/ AwaitAll
  \/ Cancel

CancelSpecInit == /\ now = 0 /\ IdentityInit /\ RegistryInit /\ ConcurrentSyncInit
                  /\ ConcurrentIdle /\ RealtimeInit /\ CallerIdle /\ ContentInit
    /\ AuthenticityInit /\ CredentialInit /\ ResolverIdle
                  /\ StrategyIdle

CancelSpec == CancelSpecInit /\ [][CancelNext]_vars

\* The usernames platforms report.
Usernames == {Some("alice"), Some("bob")}

\* The candidates of a conflict of a type, for a list of platforms: follower
\* counts for follower_count_variance, usernames for username_conflict.

CandidateLists(type, ps) ==
  {[i \in 1..Len(ps) |->
      [platform |-> ps[i],
       count |-> IF type = "follower_count_variance" THEN f[i].payload ELSE null,
       bio |-> null,
       value |-> IF type = "username_conflict" THEN f[i].payload ELSE null,
       timestamp |-> f[i].time]] :
     f \in [1..Len(ps) ->
             [payload : IF type = "follower_count_variance"
                          THEN {Some(0), Some(1000), Some(1400)} ELSE Usernames,
              time : {0, 1}]]}

\* The conflicts of a type over a list of platforms.
Conflicts(type, ps) ==
  {[type |-> type,
    field |-> IF type = "follower_count_variance"
                THEN "metrics.followerCount" ELSE "personalInfo.username",
    values |-> vs,
    severity |-> "medium",
    autoResolvable |-> TRUE] : vs \in CandidateLists(type, ps)}

\* ConflictResolver and its strategies on one conflict: the conflict is
\* resolved for a profile, and resolved again later.
StrategyNext ==
  \/ resolveConflict
  \/ Tick

StrategySpecInit ==
  /\ now = 0 /\ IdentityInit /\ RegistryInit /\ SyncIdle
  /\ ConcurrentIdle /\ RealtimeInit /\ CallerIdle /\ ContentInit
    /\ AuthenticityInit /\ CredentialInit /\ ResolverIdle
  /\ strategyRets = <<>>
  /\ \E type \in {"follower_count_variance", "username_conflict"},
        ps \in PlatformLists, verified \in SUBSET Platforms :
       \E conflict \in Conflicts(type, ps) :
         strategyArgs = Some([conflict |-> conflict,
                              profile |-> [platformsVerified |-> verified]])

StrategySpec == StrategySpecInit /\ [][StrategyNext]_vars

-----------------------------------------------------------------------------
(* Verification level: claims C1 - C6 *)

\* expiresAt has passed at time t.
expiredAt(method, t) == method.expiresAt # null /\ method.expiresAt[1] < t

clamp(x, lo, hi) == Max(lo, Min(hi, x))

\* C1: after any sequence of creations, platform verifications and method
\* additions, a verification level is an integer between 0 and 100, both for
\* the stored identity and for a creator of the registry.
C1_LevelWithinRange ==
  /\ stored # null => stored[1].verificationLevel \in 0..100
  /\ \A a \in Addresses :
       creators[a].isActive => creators[a].verificationLevel \in 0..100

\* C2: the stored verificationLevel always equals the weighted scorer run over
\* the stored verificationMethods.
C2_LevelIsDerived ==
  stored # null =>
    stored[1].verificationLevel
      = calculateVerificationLevel(stored[1].verificationMethods)

\* The level section 4.1 describes: the methods that are verified and not
\* expired contribute weight * confidence, and the sum is clamped to [0,100]
\* and floored.
RECURSIVE contributingScore(_, _)
contributingScore(methods, t) ==
  IF methods = <<>> THEN 0
  ELSE LET method == Head(methods)
       IN (IF method.status = "verified" /\ ~expiredAt(method, t)
             THEN weights(method.type) * method.confidence
             ELSE 0) + contributingScore(Tail(methods), t)

\* C3: for every method list the verification level is
\* floor(clamp(sum of weight * confidence over the contributing methods, 0, 100)).
C3_LevelIsClampedSum ==
  stored # null =>
    calculateVerificationLevel(stored[1].verificationMethods)
      = clamp(contributingScore(stored[1].verificationMethods, now), 0, 10000) \div 100

\* C4: a method whose expiresAt has passed, or whose status is not verified,
\* contributes nothing: the level is the level of the list without it, and
\* the method stays in the list. Stated for lists whose confidences all lie in
\* [0,1], so that it does not rest on how other confidences are scored.
C4_ExpiredContributesNothing ==
  stored # null =>
    LET methods == stored[1].verificationMethods
        live    == SelectSeq(methods,
                     LAMBDA m : m.status = "verified" /\ ~expiredAt(m, now))
    IN (\A i \in 1..Len(methods) : methods[i].confidence \in 0..100) =>
         calculateVerificationLevel(methods) = calculateVerificationLevel(live)

\* C5: adding a verified method, whatever its confidence, never lowers the
\* level of the unchanged existing methods.
C5_AddingVerifiedNeverLowers ==
  stored # null =>
    \A m \in MethodInputs :
      m.status = "verified" =>
        calculateVerificationLevel(Append(stored[1].verificationMethods, m))
          >= calculateVerificationLevel(stored[1].verificationMethods)

\* C6: a confidence outside [0,1] is scored as if clamped to [0,1]: the level
\* is the level of the same list with every confidence clamped.
C6_ConfidenceClamped ==
  stored # null =>
    LET methods == stored[1].verificationMethods
        clamped == [i \in 1..Len(methods) |->
                      [methods[i] EXCEPT !.confidence = clamp(@, 0, 100)]]
    IN calculateVerificationLevel(methods) = calculateVerificationLevel(clamped)

-----------------------------------------------------------------------------
(* Sync cycle: claims C7 - C10 *)

\* The fetch for platform p threw in this cycle.
threw(p) ==
  \/ promises[p] = rejected
  \/ /\ promises[p].state = "fulfilled"
     /\ promises[p].value # null
     /\ ~promises[p].value[1].success

\* The fetch for platform p returned in this cycle.
succeeded(p) ==
  /\ promises[p].state = "fulfilled"
  /\ promises[p].value # null
  /\ promises[p].value[1].success

\* A fetch was dispatched for platform p in this cycle.
fetched(p) == promises[p] # fulfilled(null)

seqRange(xs) == {xs[i] : i \in 1..Len(xs)}

\* The platforms with a candidate value in a detected conflict.
candidatePlatforms ==
  UNION {{v.platform : v \in seqRange(c.values)} : c \in seqRange(detected)}

\* C7: when the fetch of one platform throws, the cycle does not fail: it
\* returns only after every dispatched fetch has settled, and every platform
\* whose fetch returned is listed in syncedPlatforms and is a candidate of
\* every follower-count conflict of the cycle.
C7_PartialFailureIsolated ==
  (\E b \in Platforms : threw(b)) =>
    /\ pc # "failed"
    /\ pc = "done" =>
         /\ syncResult # null
         /\ \A p \in Platforms : promises[p] # pending
         /\ \A a \in Platforms :
              succeeded(a) =>
                /\ a \in seqRange(syncResult[1].syncedPlatforms)
                /\ \A c \in seqRange(detected) :
                     c.type = "follower_count_variance" =>
                       \E v \in seqRange(c.values) :
                         /\ v.platform = a
                         /\ v.count = Some(countOrZero(promises[a].value[1]))

\* C7 happens: a cycle returned in which one fetch succeeded, another threw,
\* and a conflict was detected.
C7_Witness ==
  /\ pc = "done"
  /\ \E a, b \in Platforms :
       /\ succeeded(a) /\ threw(b)
       /\ a \in seqRange(syncResult[1].syncedPlatforms)
       /\ detected # <<>>

\* C8: syncedPlatforms of a returned result holds exactly the platforms whose
\* fetch succeeded.
C8_SyncedAreSucceeded ==
  pc = "done" =>
    seqRange(syncResult[1].syncedPlatforms) = {p \in Platforms : succeeded(p)}

\* C9: a platform whose fetch failed is no candidate of any conflict, and a
\* cycle with one succeeded and one failed platform raises no follower-count
\* conflict.
C9_FailedIsNoCandidate ==
  pc = "done" =>
    /\ \A p \in candidatePlatforms : ~threw(p)
    /\ (/\ Cardinality({p \in Platforms : succeeded(p)}) = 1
        /\ Cardinality({p \in Platforms : threw(p)}) = 1)
         => \A c \in seqRange(detected) : c.type # "follower_count_variance"

\* C10: a fetch is dispatched for exactly the connections that are 'connected'
\* and have an adapter; a revoked or expired connection is never fetched and
\* appears neither in syncedPlatforms nor among the conflict candidates.
C10_OnlyConnectedFetched ==
  pc # "idle" =>
    /\ \A p \in Platforms :
         fetched(p) <=> (/\ cycleProfile[1].connectionStatus[p] = "connected"
                         /\ p \in platformAdapters)
    /\ \A p \in Platforms :
         cycleProfile[1].connectionStatus[p] \in {"revoked", "expired"} =>
           /\ ~fetched(p)
           /\ pc = "done" => /\ p \notin seqRange(syncResult[1].syncedPlatforms)
                             /\ p \notin candidatePlatforms

\* C10 happens: a cycle returned in which a revoked connection with an
\* adapter was skipped and a connected one was fetched.
C10_Witness ==
  /\ pc = "done"
  /\ \E p, q \in platformAdapters :
       /\ cycleProfile[1].connectionStatus[p] = "revoked"
       /\ cycleProfile[1].connectionStatus[q] = "connected"
       /\ ~fetched(p)
       /\ succeeded(q)
       /\ q \in seqRange(syncResult[1].syncedPlatforms)

-----------------------------------------------------------------------------
(* Ordering within a cycle: claim C11 *)

\* C11: while a dispatched fetch of the cycle is still in flight, conflict
\* resolution and the profile update have not started: the cycle is still
\* waiting, the stored profile is the one the cycle read, and nothing has been
\* detected, recorded or returned.
C11_ResolveAfterAllSettled ==
  (\E p \in Platforms : promises[p] = pending) =>
    /\ pc = "fetching"
    /\ profile = cycleProfile[1]
    /\ detected = <<>>
    /\ recorded = <<>>
    /\ syncResult = null

\* C11 happens: a cycle returned whose two fetches settled at different
\* times, the later-listed platform first, and a conflict was resolved from
\* both.
C11_Witness ==
  /\ pc = "done"
  /\ succeeded("tiktok") /\ succeeded("instagram")
  /\ promises["instagram"].value[1].lastSync < promises["tiktok"].value[1].lastSync
  /\ \E c \in seqRange(detected) :
       {v.platform : v \in seqRange(c.values)} = {"tiktok", "instagram"}

-----------------------------------------------------------------------------
(* Overlapping calls: claims C12, C13 *)

TrackedFields == {"metrics.followerCount", "personalInfo.bio"}

\* The value a profile holds in a tracked field.
fieldOf(prof, field) ==
  IF field = "metrics.followerCount" THEN prof.followerCount ELSE prof.bio

\* The updates of a returned cycle: <<field, resolved value>> for each of the
\* conflicts of its sync results.
cycleUpdates(cp, ps) ==
  LET conflicts == detectConflicts(cp[1], validResultsOf(ps))
  IN {<<c.field, resolutionStrategies(c).resolvedValue>> : c \in seqRange(conflicts)}

\* The updates of a real-time update that found its connection.
realtimeUpdates ==
  IF rt.platformId = null \/ rt.platformId[1] \notin DOMAIN profile.connectionStatus
    THEN {}
    ELSE {<<f, fieldOf(rt.updateData[1], f)>> :
            f \in {g \in TrackedFields : fieldOf(rt.updateData[1], g) # null}}

\* The profile holds, in every field some operation updated, the value one of
\* them gave it: what every one-after-the-other order of the operations
\* leaves, since an operation that does not update a field keeps the value it
\* read.
reflectsAll(updates) ==
  \A f \in TrackedFields :
    (\E u \in updates : u[1] = f) => <<f, fieldOf(profile, f)>> \in updates

\* C12: at most one reconciliation of the creator is in progress at any time,
\* and when two syncCreatorProfile calls have both returned the stored profile
\* reflects the updates of both.
C12_SingleReconciliation ==
  /\ ~(pc = "fetching" /\ pc2 = "fetching")
  /\ (pc = "done" /\ pc2 = "done" /\ rt.pc = "idle") =>
       reflectsAll(cycleUpdates(cycleProfile, promises)
                     \cup cycleUpdates(cycleProfile2, promises2))

\* C13: a handleRealTimeUpdate call and a syncCreatorProfile call are never in
\* progress together, and when both have returned the stored profile reflects
\* the updates of both.
C13_RealtimeNotInterleaved ==
  /\ ~(pc = "fetching" /\ rt.pc = "resolving")
  /\ (pc = "done" /\ rt.pc = "done" /\ pc2 = "idle") =>
       reflectsAll(cycleUpdates(cycleProfile, promises) \cup realtimeUpdates)

-----------------------------------------------------------------------------
(* Webhook ingestion: claim C14 *)

\* C14: a webhook event delivered again is enqueued and broadcast once: the
\* queue holds one entry for each distinct event delivered, and no more
\* broadcasts were sent than distinct events delivered.
C14_WebhookIdempotent ==
  /\ Len(syncQueue) = Cardinality(delivered)
  /\ Len(broadcasts) <= Cardinality(delivered)

-----------------------------------------------------------------------------
(* Resolution within a cycle: claims C15, C16 *)

\* C15: a detected conflict that is not auto-resolvable is left alone by the
\* cycle: its field keeps the value the cycle read and the conflict is in the
\* returned report; a conflict that is auto-resolvable has its resolved value
\* in the stored profile.
C15_ManualConflictUntouched ==
  pc = "done" =>
    \A c \in seqRange(detected) :
      IF c.autoResolvable
        THEN fieldOf(profile, c.field) = resolutionStrategies(c).resolvedValue
        ELSE /\ fieldOf(profile, c.field) = fieldOf(cycleProfile[1], c.field)
             /\ c \in seqRange(syncResult[1].conflicts)

\* The resolutions the cycle recorded for follower-count conflicts.
followerResolutions ==
  {h.resolution : h \in {g \in seqRange(recorded) :
                           g.conflict.type = "follower_count_variance"}}

\* The follower counts the succeeded platforms of the cycle returned.
returnedCounts ==
  {promises[p].value[1].followerCount : p \in {q \in Platforms : succeeded(q)}}

\* The cycle's two adapters returned 1000 and 1400 followers.
scenarioC ==
  /\ pc = "done"
  /\ succeeded("tiktok") /\ succeeded("instagram")
  /\ returnedCounts = {Some(1000), Some(1400)}

-----------------------------------------------------------------------------
(* Conflict detection and the latest-timestamp strategy: claims C17 - C20 *)

\* The follower counts the given sync results report: those of the results
\* that succeeded and carry one.
reportedCounts ==
  LET reporting == SelectSeq(resolveArgs,
                             LAMBDA r : r.success /\ r.followerCount # null)
  IN [i \in 1..Len(reporting) |-> reporting[i].followerCount[1]]

\* The bios the given sync results report as changed.
reportedBios ==
  LET reporting == SelectSeq(resolveArgs, LAMBDA r : r.success /\ r.bio # null)
  IN [i \in 1..Len(reporting) |-> reporting[i].bio[1]]

raised(type) == \E c \in seqRange(detected) : c.type = type

\* C17: when two or more platforms report a follower count, a
\* follower_count_variance conflict is raised if and only if the coefficient
\* of variation of the reported counts exceeds 0.15; every such conflict has
\* severity medium and is auto-resolvable.
C17_NumericConflictIffVariance ==
  resolveRet # null =>
    /\ Len(reportedCounts) >= 2 =>
         (raised("follower_count_variance") <=> hasSignificantVariance(reportedCounts))
    /\ \A c \in seqRange(detected) :
         c.type = "follower_count_variance" =>
           c.severity = "medium" /\ c.autoResolvable

\* C18: a bio_conflict is raised if and only if more than one platform
\* reported a changed bio and the reported bios differ after case and
\* whitespace normalization; every such conflict has severity high and is not
\* auto-resolvable.
C18_BioConflictIffDiffer ==
  resolveRet # null =>
    /\ raised("bio_conflict")
         <=> (Len(reportedBios) > 1 /\ hasDifferentValues(reportedBios))
    /\ \A c \in seqRange(detected) :
         c.type = "bio_conflict" => c.severity = "high" /\ ~c.autoResolvable

\* C19: when exactly one platform's sync succeeded in a cycle, no conflict is
\* raised for a field it reports and the stored profile holds the reported
\* value.
C19_SingleSourceApplied ==
  pc = "done" =>
    \A p \in Platforms :
      (succeeded(p) /\ \A q \in Platforms \ {p} : ~succeeded(q)) =>
        LET r == promises[p].value[1]
        IN /\ r.followerCount # null =>
                /\ \A c \in seqRange(detected) : c.field # "metrics.followerCount"
                /\ profile.followerCount = r.followerCount
           /\ r.bio # null =>
                /\ \A c \in seqRange(detected) : c.field # "personalInfo.bio"
                /\ profile.bio = r.bio

Reverse(xs) == [i \in 1..Len(xs) |-> xs[Len(xs) + 1 - i]]

\* C20: for a follower-count conflict the latest-timestamp strategy returns
\* the count of a candidate whose timestamp is the greatest, and it returns
\* the same value and source when the candidates are given in the opposite
\* order, as a tie-break by a fixed platform priority list would.
C20_LatestTimestampByPriority ==
  \A c \in seqRange(detected) :
    c.type = "follower_count_variance" =>
      LET resolution == LatestTimestampStrategy(c)
          reversed   == LatestTimestampStrategy([c EXCEPT !.values = Reverse(@)])
      IN /\ \E v \in seqRange(c.values) :
              /\ \A w \in seqRange(c.values) : w.timestamp <= v.timestamp
              /\ resolution.resolvedValue = v.count
         /\ resolution.resolvedValue = reversed.resolvedValue
         /\ resolution.source = reversed.source

-----------------------------------------------------------------------------
(* The strategies on one conflict: claims C21, C22 *)

\* The candidates of the conflict being resolved that come from a platform of
\* the profile's platformsVerified.
verifiedCandidates ==
  {v \in seqRange(strategyArgs[1].conflict.values) :
     v.platform \in strategyArgs[1].profile.platformsVerified}

\* C21: for a username_conflict, resolved by the verified-platform strategy,
\* every result holds the value of a candidate from a verified platform when
\* there is one, and otherwise has the value and the strategy of the
\* latest-timestamp strategy on the same conflict.
C21_VerifiedPlatformPreferred ==
  (strategyArgs # null /\ strategyArgs[1].conflict.type = "username_conflict") =>
    \A i \in 1..Len(strategyRets) :
      IF verifiedCandidates # {}
        THEN \E v \in verifiedCandidates : strategyRets[i].resolvedValue = v.value
        ELSE LET latest == LatestTimestampStrategy(strategyArgs[1].conflict)
             IN /\ strategyRets[i].resolvedValue = latest.resolvedValue
                /\ strategyRets[i].strategy = latest.strategy

\* C21 happens: a username_conflict was resolved to the value of a verified
\* platform that is neither the first nor the latest candidate, whose values
\* differ from it.
C21_Witness ==
  /\ strategyArgs # null
  /\ strategyArgs[1].conflict.type = "username_conflict"
  /\ strategyRets # <<>>
  /\ LET values == strategyArgs[1].conflict.values
     IN /\ Len(values) = 3
        /\ verifiedCandidates = {values[2]}
        /\ values[2].timestamp < values[1].timestamp
        /\ values[1].value # values[2].value
        /\ values[3].value # values[2].value
        /\ strategyRets[1].resolvedValue = values[2].value
        /\ strategyRets[1].strategy = "verified_platform"

-----------------------------------------------------------------------------
(* Atomic reconciliation: claim C23 *)

-----------------------------------------------------------------------------
(* Cycles that bring nothing new: claim C24 *)

\* The sync results of the cycle report no change: every dispatched fetch
\* returned, and none of the results has an entry in its changes.
noChange ==
  \A p \in Platforms :
    fetched(p) => /\ succeeded(p)
                  /\ promises[p].value[1].bio = null

\* C24: a cycle whose sync results are empty or report no change raises no
\* conflict, updates no field and leaves the stored profile as the cycle read
\* it.
C24_NoChangeLeavesIdentity ==
  (pc = "done" /\ noChange) =>
    /\ detected = <<>>
    /\ syncResult[1].updatedFields = <<>>
    /\ profile = cycleProfile[1]

-----------------------------------------------------------------------------
(* The states of a cycle: claim C25 *)

\* A detected conflict that needs a manual decision.
manualRequired == {c \in seqRange(detected) : ~c.autoResolvable}

\* A conflict the returned cycle left pending: its field holds the value the
\* cycle read and the conflict is in the report.
leftPending(c) ==
  /\ fieldOf(profile, c.field) = fieldOf(cycleProfile[1], c.field)
  /\ c \in seqRange(syncResult[1].conflicts)

\* Where the cycle stands. Reconciling lies inside the step from Fetching to
\* its end.
cycleState ==
  CASE pc = "idle"     -> "Idle"
    [] pc = "fetching" -> "Fetching"
    [] pc = "failed"   -> "Failed"
    [] pc = "done"     -> IF \E c \in manualRequired : leftPending(c)
                            THEN "PartiallyCommitted" ELSE "Committed"

\* The moves of a cycle, the pass through Reconciling included.
cycleMoves ==
  {<<"Idle", "Fetching">>, <<"Fetching", "Committed">>,
   <<"Fetching", "PartiallyCommitted">>, <<"Fetching", "Failed">>}

\* C25: a cycle moves only from Idle to Fetching and from Fetching, through
\* reconciliation, to Committed, PartiallyCommitted or Failed; it never leaves
\* Committed or Failed; and it ends PartiallyCommitted exactly when a conflict
\* that needs a manual decision was detected.
C25_CycleStateMachine ==
  [][/\ cycleState' # cycleState => <<cycleState, cycleState'>> \in cycleMoves
     /\ pc' = "done" =>
          (manualRequired' # {} <=> cycleState' = "PartiallyCommitted")]_vars

-----------------------------------------------------------------------------
(* Termination of a cycle: claim C26 *)

\* C26: a cycle that has dispatched its fetches eventually returns or fails,
\* also when an adapter never answers.
C26_CycleReturns == (pc = "fetching") ~> (pc \in {"done", "failed"})

-----------------------------------------------------------------------------
(* Cancellation: claim C27 *)

\* C27: once the caller has cancelled a cycle whose fetches were in flight,
\* nothing of the cycle is committed: the results that arrive are not
\* reconciled and the stored profile is the one the cycle read.
C27_CancelledCommitsNothing ==
  cancelled => /\ detected = <<>>
               /\ syncResult = null
               /\ profile = cycleProfile[1]

-----------------------------------------------------------------------------
(* The report of a cycle: claims C28, C29 *)

\* C28: the report of a returned cycle names every platform the profile had
\* connected, whether it has an adapter or not, and holds every conflict the
\* cycle detected.
C28_NothingDroppedSilently ==
  pc = "done" =>
    /\ \A p \in Platforms :
         cycleProfile[1].connectionStatus[p] = "connected" =>
           p \in seqRange(syncResult[1].syncedPlatforms)
    /\ \A c \in seqRange(detected) : c \in seqRange(syncResult[1].conflicts)

\* C29: the conflicts and updated fields a cycle returns are those the cycle
\* detected, whatever other cycles on the same resolver recorded before or
\* meanwhile.
C29_ReportIsThisCycles ==
  pc = "done" =>
    /\ syncResult[1].conflicts = detected
    /\ syncResult[1].updatedFields = [i \in 1..Len(detected) |-> detected[i].field]

-----------------------------------------------------------------------------
(* Older values: claim C30 *)

\* The follower-count resolutions in a conflict history, in the order they
\* were recorded.
followerRecords(history) ==
  SelectSeq(history, LAMBDA h : h.conflict.field = "metrics.followerCount")

\* The timestamp of the candidate a recorded resolution took its value from.
sourceTimestamp(h) ==
  LET v == CHOOSE w \in seqRange(h.conflict.values) :
             w.platform = h.resolution.source
  IN v.timestamp

\* C30: when the stored follower count is the one the last recorded
\* resolution gave, a step that records a resolution with an older timestamp
\* leaves the stored follower count as it is.
C30_NoOlderValueStored ==
  [][LET old == followerRecords(recorded)
         new == followerRecords(recorded')
     IN (/\ Len(new) > Len(old)
         /\ Len(old) > 0
         /\ profile.followerCount = old[Len(old)].resolution.resolvedValue
         /\ sourceTimestamp(new[Len(new)]) < sourceTimestamp(old[Len(old)]))
          => profile'.followerCount = profile.followerCount]_vars

-----------------------------------------------------------------------------
(* Validation of a new method: claim C31 *)

\* A method the VerificationMethod type describes.
validMethod(m) == m.type \in MethodTypes /\ m.confidence # NaN

\* C31: a step never leaves in the stored identity a method whose type is
\* outside the enumeration or whose confidence is no number, and an
\* updateVerificationLevel call that ended with an error, as it does for an
\* identity that does not exist, left what is stored unchanged.
C31_InvalidMethodRejected ==
  [][/\ stored' # NoIdentity =>
          \A i \in 1..Len(stored'[1].verificationMethods) :
            validMethod(stored'[1].verificationMethods[i])
     /\ (ret'.op = "updateVerificationLevel" /\ ~ret'.ok) => stored' = stored]_vars

-----------------------------------------------------------------------------
(* The on-chain record: claim C34 *)

\* C34: an updateVerificationLevel call that changed the stored identity
\* passed the new level to updateIdentityOnChain when it exceeds the level
\* the identity had before the call by at least 10, and left the on-chain
\* record alone otherwise.
C34_OnChainOnSignificantRise ==
  [][(stored # NoIdentity /\ stored' # stored) =>
       IF stored'[1].verificationLevel - stored[1].verificationLevel >= 10
         THEN onChain' = Some(stored'[1].verificationLevel)
         ELSE onChain' = onChain]_vars

-----------------------------------------------------------------------------
(* Creation of an identity: claim C39 *)

\* C39: a createIdentity call succeeds exactly when the biometric confidence
\* is at least 0.95 and registration and deployment returned; a failed call
\* stored nothing; a successful one stored the identity with the platforms
\* that connected, whether or not every requested platform did.
C39_CreateAllOrNothing ==
  ret.op = "createIdentity" =>
    /\ ret.ok <=> (request[1].confidence >= 95 /\ request[1].externalOk)
    /\ ~ret.ok => stored = NoIdentity
    /\ ret.ok => /\ stored # NoIdentity
                 /\ stored[1].connectedPlatforms = request[1].connects

\* C39 happens: an identity was created and stored although one of the
\* requested platforms failed to connect.
C39_Witness ==
  /\ ret.op = "createIdentity" /\ ret.ok
  /\ stored # NoIdentity
  /\ request[1].connects # request[1].requested
  /\ request[1].connects # {}
  /\ stored[1].connectedPlatforms = request[1].connects

-----------------------------------------------------------------------------
(* Completion order: claim C35 *)

\* The promises of a cycle had its fetches completed at the times t gives,
\* with the data each platform returned unchanged.
completedAt(ps, t) ==
  [p \in DOMAIN ps |->
     IF ps[p].value = null THEN ps[p]
     ELSE fulfilled(Some([ps[p].value[1] EXCEPT !.lastSync = t[p]]))]

\* The profile a cycle stores for the profile it read and its promises.
outcomeOf(cp, ps) == resolveAll(cp, detectConflicts(cp, validResultsOf(ps)))

\* C35: the profile a returned cycle stored is the one it would have stored
\* had its fetches completed at any other times, in any other order, with the
\* same data.
C35_CompletionOrderIrrelevant ==
  pc = "done" =>
    \A t \in [Platforms -> 0..MaxTime] :
      outcomeOf(cycleProfile[1], completedAt(promises, t)) = profile

-----------------------------------------------------------------------------
(* The value of the latest candidate: claim C36 *)

\* C36: every result of the latest-timestamp strategy on a follower-count
\* conflict holds the count of the candidate it names as its source, a count
\* of 0 included, and is never without a value.
C36_LatestValueIsCandidates ==
  (strategyArgs # null
     /\ strategyArgs[1].conflict.type = "follower_count_variance") =>
    \A i \in 1..Len(strategyRets) :
      /\ strategyRets[i].resolvedValue # null
      /\ \E v \in seqRange(strategyArgs[1].conflict.values) :
           /\ v.platform = strategyRets[i].source
           /\ strategyRets[i].resolvedValue = v.count

-----------------------------------------------------------------------------
(* The success flag of a sync result: claim C37 *)

\* C37: the success flag of a returned sync result is true exactly when every
\* fetch the cycle dispatched succeeded: one failed fetch makes it false, and a
\* cycle that dispatched no fetch returns true.
C37_SuccessIffAllFetchesSucceeded ==
  (pc = "done" /\ syncResult # null) =>
    /\ syncResult[1].success <=> \A p \in Platforms : fetched(p) => succeeded(p)
    /\ (\E p \in Platforms : fetched(p) /\ threw(p)) => ~syncResult[1].success
    /\ (\A p \in Platforms : ~fetched(p)) => syncResult[1].success

\* A cycle returned with one fetch succeeded and another failed, and reports
\* no success.
C37_Witness ==
  /\ pc = "done"
  /\ syncResult # null
  /\ \E p, q \in Platforms : fetched(p) /\ succeeded(p) /\ fetched(q) /\ threw(q)
  /\ ~syncResult[1].success

-----------------------------------------------------------------------------
(* The real-time session of a creator: claim C38 *)

\* C38: once the creator's socket has closed, no connection entry and no
\* platform subscription of the creator remains, whatever the order of open,
\* webhook setup and close, and no update is sent while the socket is closed.
C38_SessionTornDown ==
  [][/\ ~websocketConnections' => subscriptions' = {}
     /\ ~websocketConnections => broadcasts' = broadcasts]_vars

-----------------------------------------------------------------------------
(* Oracle votes of the authenticity contract: claim C40 *)

\* The oracles that have voted on a content hash.
voters(votes, h) == {o \in oracles : votes[h][o]}

\* C40: a vote on a content hash is counted once per oracle, so the vote count
\* of a hash is the number of distinct oracles that voted on it; a proof is
\* verified only with at least 3 such votes, and once verified it stays so.
C40_VotesCountedOnce ==
  [][\A h \in Hashes :
       /\ voters(oracleVotes, h) \subseteq voters(oracleVotes', h)
       /\ oracleVoteCount'[h] = Cardinality(voters(oracleVotes', h))
       /\ authenticityProofs'[h].isVerified => Cardinality(voters(oracleVotes', h)) >= 3
       /\ authenticityProofs[h].isVerified => authenticityProofs'[h].isVerified]_vars

\* A proof has been verified by the votes of three oracles, and a fourth has
\* voted since.
C40_Witness ==
  \E h \in Hashes :
    /\ authenticityProofs[h].isVerified
    /\ authenticityProofs[h].confidenceScore = 85
    /\ oracleVoteCount[h] = 4
    /\ Cardinality(voters(oracleVotes, h)) = 4

-----------------------------------------------------------------------------
(* Content hashes and authenticity scores: claims C32, C33 *)

\* A proof is registered for the hash in the registry.
registered(h) == contentRegistry[h].timestamp # 0

\* A proof has been submitted for the hash to the authenticity engine.
submitted(h) == authenticityProofs[h].creationTimestamp # 0

\* C32: a content hash is registered once: a proof that is registered or
\* submitted keeps its creator, timestamp and origin whatever is registered
\* later, and no two credentials of the identity are for the same hash.
C32_HashRegisteredOnce ==
  [][/\ \A h \in Hashes : registered(h) => contentRegistry'[h] = contentRegistry[h]
     /\ \A h \in Hashes :
          submitted(h) =>
            /\ authenticityProofs'[h].creator = authenticityProofs[h].creator
            /\ authenticityProofs'[h].creationTimestamp
                 = authenticityProofs[h].creationTimestamp
     /\ \A i, j \in 1..Len(credentials') :
          credentials'[i].contentHash = credentials'[j].contentHash => i = j]_vars

=============================================================================
